---- MODULE Spec2Model ----
(***************************************************************************)
(* Calibration orchestration engine (src/calibration/engine.py) with its   *)
(* controlling context (src/gui, src/api/remote_api.py).                   *)
(*                                                                         *)
(* Temperatures are integers in tenths of a degree Celsius (0.5 C = 5),    *)
(* wall-clock time is in seconds.  A worker thread is a process whose pc   *)
(* names the statement of _calibration_worker it executes next; one step   *)
(* executes it up to the next statement at which the thread reads shared   *)
(* state anew.                                                             *)
(***************************************************************************)
EXTENDS Integers, Sequences, FiniteSets

(* ---- bounds of the model ---------------------------------------------- *)
MaxWorkers == 2
MaxPoints == 2
MaxChannels == 1
MaxTicks == 2
TickSeconds == 60
MaxRounds == 2

(* ---- program constants (src/config.py) -------------------------------- *)
STABILITY_TOLERANCE == 5
STABILITY_TIME_SECONDS == 60
THERMAL_EQUILIBRIUM_THRESHOLD == 3
REFERENCE_CHANNEL == "A0"
Infinity == 100000

\* MEASUREMENTS_PER_POINT (config.py: 10), cut down to MaxRounds rounds.
MEASUREMENTS_PER_POINT == MaxRounds

(* ---- input domains ---------------------------------------------------- *)
Workers == 1..MaxWorkers
PointTemps == {500, 1000}
Channels == {"A0", "B0"}
PVReadings == {494, 495, 1000}
CropicoTemps == {500, 504, Infinity}
None == -1
MaxTime == MaxTicks * TickSeconds

SeqsUpTo(S, n) == UNION {[1..k -> S] : k \in 0..n}
PointLists == SeqsUpTo(PointTemps, MaxPoints)
ChannelLists == SeqsUpTo(Channels, MaxChannels)

Range(s) == {s[i] : i \in 1..Len(s)}

\* outcomes (success, temperature) of cropico.read_temperature: a failed
\* read (overflow, timeout) carries inf, a successful one a value or inf
CropicoReads == {[ok |-> FALSE, temp |-> Infinity]}
                  \cup {[ok |-> TRUE, temp |-> t] : t \in CropicoTemps}

VARIABLES
    \* CalibrationEngine fields
    is_running, is_paused, stop_requested,
    calibration_points, active_channels, current_point_index,
    stability_start_time, channel_readings,
    session_id,
    \* device clients: the connected flag and the state of the port self.ser
    connected, ser,
    \* a function applied on its own: its arguments and what it returned
    call, ret,
    \* the furnace trace of the plot history, and which worker threads are
    \* between the two appends of _update_furnace_history
    furnace_history, furnace_time_history, in_update,
    \* wall clock
    now,
    \* worker threads: position and locals of _calibration_worker
    pc, pts, pidx, round, chIter, chPos,
    \* controlling context inside a blocking engine call
    ctl,
    \* observations (events emitted, commands issued, history of the run)
    sp_log, parked, errs, completed, failKind, stopAt, dwell_readings,
    requested, runRequested, runChannels, runPoints, burst_reads, outcome,
    \* the point_idx of every point_completed event of a worker, in order
    point_completed

engineVars == <<is_running, is_paused, stop_requested, calibration_points,
                active_channels, current_point_index, stability_start_time,
                channel_readings, session_id>>
workerVars == <<pc, pts, pidx, round, chIter, chPos>>
obsVars == <<sp_log, parked, errs, completed, failKind, stopAt, dwell_readings,
             requested, runRequested, runChannels, runPoints, burst_reads,
             outcome, point_completed>>
historyBuffers == <<furnace_history, furnace_time_history, in_update>>
deviceVars == <<connected, ser, call, ret, historyBuffers>>
vars == <<engineVars, deviceVars, now, workerVars, ctl, obsVars>>

(* ---- pure helpers ----------------------------------------------------- *)

\* sorted(points): insertion of each element into an ascending sequence
RECURSIVE InsertSorted(_, _)
InsertSorted(x, s) ==
    IF s = <<>> THEN <<x>>
    ELSE IF x <= Head(s) THEN <<x>> \o s
    ELSE <<Head(s)>> \o InsertSorted(x, Tail(s))

RECURSIVE SortAscending(_)
SortAscending(s) ==
    IF s = <<>> THEN <<>> ELSE InsertSorted(Head(s), SortAscending(Tail(s)))

UnsortedPoints(points) == points
Sorted(points) == SortAscending(points)

IsAscending(s) == \A i \in 1..Len(s) : \A j \in 1..Len(s) : i < j => s[i] <= s[j]

Abs(x) == IF x < 0 THEN -x ELSE x

\* diff = abs(furnace_pv - target_temp); is_stable = diff <= STABILITY_TOLERANCE
IsStable(pv, target) == Abs(pv - target) <= STABILITY_TOLERANCE

SetMax(S) == CHOOSE x \in S : \A y \in S : y <= x
SetMin(S) == CHOOSE x \in S : \A y \in S : x <= y

\* a pass in which one failed read is enough to deny equilibrium
FailedReadDeniesEquilibrium(chs, reads) ==
    \A i \in 1..Len(chs) : reads[i].ok /\ reads[i].temp # Infinity

\* _check_thermal_equilibrium on the readings of one pass
\* reads[i] = [ok, temp] is the read of channel chs[i]
CheckThermalEquilibrium(chs, reads) ==
    IF Len(chs) < 2 THEN TRUE
    ELSE LET good == {i \in 1..Len(chs) : reads[i].ok /\ reads[i].temp # Infinity}
             \* temps is a dict keyed by channel: a repeated channel keeps its last read
             keys == {chs[i] : i \in good}
             last(c) == SetMax({i \in good : chs[i] = c})
             temps == {reads[last(c)].temp : c \in keys}
         IN IF Cardinality(keys) < 2 THEN TRUE
            ELSE SetMax(temps) - SetMin(temps) <= THERMAL_EQUILIBRIUM_THRESHOLD

\* the caller's list taken as it is
AsGiven(channels) == channels

\* configure_channels: copy, insert the reference channel at the front if absent
WithReference(channels) ==
    IF REFERENCE_CHANNEL \in Range(channels) THEN channels
    ELSE <<REFERENCE_CHANNEL>> \o channels

\* `if self.database and self.session_id`: main.py attaches the database
\* right after constructing the engine, so the session id decides
Persist == session_id # 0

Alive(w) == pc[w] \notin {"none", "done"}

\* where a worker is inside _wait_for_stability
WaitLabels == {"wfs_check", "wfs_pause", "wfs_poll"}

\* no stop_calibration call has been made during the run
\* the labels of the two pause loops (stability wait, measurement burst)
PauseLabels == {"wfs_pause", "round_pause"}

\* channel_readings after clear(): no channel has a reading
NoReadings == [c \in Channels |-> 0]

\* what the last poll or channel read of a worker came to, and whether a
\* device read failed in it
NoOutcome == [kind |-> "none", failed |-> FALSE]
Outcome(w, kind, failed) ==
    outcome' = [outcome EXCEPT ![w] = [kind |-> kind, failed |-> failed]]

\* no function is being applied on its own
NoCall == [fn |-> "none"]

NoStop == [called |-> FALSE, inWait |-> FALSE, paused |-> FALSE, started |-> 0]

(* ---- initial state: CalibrationEngine.__init__, main.py set_database --- *)

\* every field of a freshly constructed engine except the point list and
\* the session id; no worker thread exists, nothing has been observed yet
Constructed ==
    /\ is_running = FALSE
    /\ is_paused = FALSE
    /\ stop_requested = FALSE
    /\ active_channels = <<REFERENCE_CHANNEL>>
    /\ current_point_index = 0
    /\ stability_start_time = None
    /\ channel_readings = NoReadings
    /\ now = 0
    /\ pc = [w \in Workers |-> "none"]
    /\ pts = [w \in Workers |-> <<>>]
    /\ pidx = [w \in Workers |-> 0]
    /\ round = [w \in Workers |-> 0]
    /\ chIter = [w \in Workers |-> <<>>]
    /\ chPos = [w \in Workers |-> 0]
    /\ ctl = "idle"
    /\ sp_log = [w \in Workers |-> <<>>]
    /\ parked = [w \in Workers |-> FALSE]
    /\ errs = [w \in Workers |-> 0]
    /\ completed = [w \in Workers |-> 0]
    /\ point_completed = [w \in Workers |-> <<>>]
    /\ failKind = [w \in Workers |-> "none"]
    /\ stopAt = [w \in Workers |-> NoStop]
    /\ dwell_readings = {}
    /\ runRequested = [w \in Workers |-> <<>>]
    /\ runChannels = [w \in Workers |-> <<>>]
    /\ runPoints = [w \in Workers |-> <<>>]
    /\ burst_reads = [w \in Workers |-> NoReadings]
    /\ outcome = [w \in Workers |-> NoOutcome]
    /\ furnace_history = <<>>
    /\ furnace_time_history = <<>>
    /\ in_update = [w \in Workers |-> FALSE]

\* both device clients connected (the main window refuses to start a
\* calibration otherwise)
DevicesConnected ==
    /\ connected = [cropico |-> TRUE, furnace |-> TRUE]
    /\ ser = [cropico |-> [state |-> "open", port |-> 1],
              furnace |-> [state |-> "open", port |-> 2]]

\* no function is applied on its own while the engine runs
NoFunctionCall == call = NoCall /\ ret = NoCall

(* ---- controlling context: commands ------------------------------------ *)

flagVars == <<is_running, is_paused, stop_requested>>
configVars == <<calibration_points, active_channels>>
runVars == <<current_point_index, stability_start_time, channel_readings>>
localVars == <<pts, pidx, round, chIter, chPos>>
eventVars == <<sp_log, parked, errs, completed, failKind, point_completed>>
historyVars == <<stopAt, dwell_readings, requested, runRequested, runChannels,
                 runPoints>>

\* start_session: database.create_session returns the new session id
start_session ==
    /\ session_id = 0
    /\ session_id' = 1
    /\ UNCHANGED <<flagVars, configVars, runVars, deviceVars, now, workerVars,
                   ctl, obsVars>>

\* configure_channels(channels, sensor_types)
configure_channels ==
    /\ \E channels \in ChannelLists :
          active_channels' = WithReference(channels)
    /\ active_channels' # active_channels
    /\ UNCHANGED <<flagVars, calibration_points, runVars, session_id, deviceVars,
                   now, workerVars, ctl, obsVars>>

\* set_calibration_points(points)
set_calibration_points ==
    /\ \E points \in PointLists :
          /\ calibration_points' = Sorted(points)
          /\ requested' = points
    /\ <<calibration_points', requested'>> # <<calibration_points, requested>>
    /\ UNCHANGED <<flagVars, active_channels, runVars, session_id, deviceVars,
                   now, workerVars, ctl, eventVars, stopAt, dwell_readings,
                   runRequested, runChannels, runPoints, burst_reads, outcome>>

\* the thread object start_calibration creates (the slot of a thread that
\* has ended is free again)
NewThread ==
    CHOOSE w \in Workers : ~Alive(w) /\ \A v \in Workers : ~Alive(v) => w <= v

\* a test that never finds a run in progress
NeverRunning == FALSE

\* `if self.is_running: return`
AlreadyRunning == is_running

\* start_calibration past the is_running test: resets the run state and
\* spawns the worker thread
StartRun ==
    /\ \E w \in Workers : ~Alive(w)
    /\ is_running' = TRUE
    /\ is_paused' = FALSE
    /\ stop_requested' = FALSE
    /\ current_point_index' = 0
    /\ channel_readings' = NoReadings
    /\ pc' = [pc EXCEPT ![NewThread] = "spawned"]
    /\ runChannels' = [runChannels EXCEPT ![NewThread] = active_channels]
    /\ runPoints' = [runPoints EXCEPT ![NewThread] = calibration_points]
    /\ runRequested' = [runRequested EXCEPT ![NewThread] = requested]
    /\ sp_log' = [sp_log EXCEPT ![NewThread] = <<>>]
    /\ parked' = [parked EXCEPT ![NewThread] = FALSE]
    /\ errs' = [errs EXCEPT ![NewThread] = 0]
    /\ completed' = [completed EXCEPT ![NewThread] = 0]
    /\ point_completed' = [point_completed EXCEPT ![NewThread] = <<>>]
    /\ failKind' = [failKind EXCEPT ![NewThread] = "none"]
    /\ stopAt' = [stopAt EXCEPT ![NewThread] = NoStop]
    /\ burst_reads' = [burst_reads EXCEPT ![NewThread] = NoReadings]
    /\ outcome' = [outcome EXCEPT ![NewThread] = NoOutcome]
    /\ UNCHANGED <<configVars, stability_start_time, session_id, now,
                   localVars, ctl, requested, dwell_readings>>

\* start_calibration: returns at once when a run is in progress, else
\* starts the run
start_calibration ==
    /\ ~AlreadyRunning
    /\ StartRun
    /\ UNCHANGED deviceVars

\* start_calibration with the call on record: whether is_running was set
\* when it was made
start_calibration_call ==
    /\ call' = [fn |-> "start_calibration", is_running |-> is_running]
    /\ IF AlreadyRunning
       THEN UNCHANGED <<engineVars, now, workerVars, ctl, obsVars>>
       ELSE StartRun
    /\ UNCHANGED <<connected, ser, ret, historyBuffers>>

\* stop_calibration
stop_calibration ==
    /\ stop_requested' = TRUE
    /\ is_running' = FALSE
    /\ stopAt' = [w \in Workers |->
                    IF Alive(w) /\ ~stopAt[w].called
                    THEN [called |-> TRUE,
                          inWait |-> pc[w] \in WaitLabels,
                          paused |-> is_paused /\ pc[w] \in PauseLabels,
                          started |-> Len(sp_log[w])]
                    ELSE stopAt[w]]
    /\ <<stop_requested', is_running', stopAt'>> # <<stop_requested, is_running, stopAt>>
    /\ UNCHANGED <<is_paused, configVars, runVars, session_id, deviceVars, now,
                   workerVars, ctl, eventVars, dwell_readings, requested,
                   runRequested, runChannels, runPoints, burst_reads, outcome>>

\* pause_calibration
pause_calibration ==
    /\ ~is_paused
    /\ is_paused' = TRUE
    /\ UNCHANGED <<is_running, stop_requested, configVars, runVars, session_id,
                   deviceVars, now, workerVars, ctl, obsVars>>

\* resume_calibration
resume_calibration ==
    /\ is_paused
    /\ is_paused' = FALSE
    /\ UNCHANGED <<is_running, stop_requested, configVars, runVars, session_id,
                   deviceVars, now, workerVars, ctl, obsVars>>

\* time.time() advances
Tick ==
    /\ now + TickSeconds <= MaxTime
    /\ now' = now + TickSeconds
    /\ UNCHANGED <<engineVars, deviceVars, workerVars, ctl, obsVars>>

(* ---- the worker thread: _calibration_worker --------------------------- *)

Goto(w, label) == pc' = [pc EXCEPT ![w] = label]

\* the thread ends: its frame (the loop variables) is gone
ThreadExit(w) ==
    /\ Goto(w, "done")
    /\ burst_reads' = [burst_reads EXCEPT ![w] = NoReadings]
    /\ outcome' = [outcome EXCEPT ![w] = NoOutcome]
    /\ pts' = [pts EXCEPT ![w] = <<>>]
    /\ pidx' = [pidx EXCEPT ![w] = 0]
    /\ round' = [round EXCEPT ![w] = 0]
    /\ chIter' = [chIter EXCEPT ![w] = <<>>]
    /\ chPos' = [chPos EXCEPT ![w] = 0]

\* an exception raised inside the try block: control passes to the handler
Raise(w, kind) ==
    /\ Goto(w, "except")
    /\ failKind' = [failKind EXCEPT ![w] = kind]

\* a loop that takes the same element again
RepeatPoint(w) == Goto(w, "pt_begin") /\ pidx' = pidx

\* the for loop takes its next element, or ends
NextPoint(w) ==
    IF pidx[w] + 1 > Len(pts[w])
    THEN Goto(w, "after_loop") /\ pidx' = pidx
    ELSE Goto(w, "pt_begin") /\ pidx' = [pidx EXCEPT ![w] = pidx[w] + 1]

\* _update_status indexes calibration_points with current_point_index
\* whenever the list is non-empty
StatusIndexError ==
    calibration_points # <<>> /\ current_point_index >= Len(calibration_points)

\* database calls raise (sqlite3 error) or return
add_measurement_raises == BOOLEAN
add_calibration_result_raises == BOOLEAN
update_session_end_time_raises == BOOLEAN

\* thread entry: the for loop binds the list object self.calibration_points
WorkerBegin(w) ==
    /\ pc[w] = "spawned"
    /\ pts' = [pts EXCEPT ![w] = calibration_points]
    /\ IF calibration_points = <<>>
       THEN Goto(w, "after_loop") /\ pidx' = pidx
       ELSE Goto(w, "pt_begin") /\ pidx' = [pidx EXCEPT ![w] = 1]
    /\ UNCHANGED <<engineVars, deviceVars, now, round, chIter, chPos, ctl, obsVars>>

\* top of the for body: `if self._stop_requested: break`; then
\* current_point_index = point_idx, furnace.set_setpoint(target_temp) and the
\* entry of _wait_for_stability (self._stability_start_time = None)
PointBegin(w) ==
    /\ pc[w] = "pt_begin"
    /\ IF stop_requested
       THEN /\ Goto(w, "after_loop")
            /\ UNCHANGED <<current_point_index, stability_start_time, sp_log,
                           dwell_readings, outcome>>
       ELSE /\ current_point_index' = pidx[w] - 1
            /\ sp_log' = [sp_log EXCEPT ![w] = Append(sp_log[w], pts[w][pidx[w]])]
            /\ stability_start_time' = None
            /\ dwell_readings' = {}
            /\ Outcome(w, "none", FALSE)
            /\ Goto(w, "wfs_check")
    /\ UNCHANGED <<flagVars, configVars, channel_readings, session_id, deviceVars,
                   now, localVars, ctl, parked, errs, completed, failKind, point_completed,
                   stopAt, requested, runRequested, runChannels, runPoints,
                   burst_reads>>

\* `while not self._stop_requested:` of _wait_for_stability
WaitCheck(w) ==
    /\ pc[w] = "wfs_check"
    /\ IF stop_requested THEN Goto(w, "wfs_false") ELSE Goto(w, "wfs_pause")
    /\ UNCHANGED <<engineVars, deviceVars, now, localVars, ctl, obsVars>>

\* _wait_for_stability returned False: `if self._stop_requested: break`,
\* else `continue`
WaitFalse(w) ==
    /\ pc[w] = "wfs_false"
    /\ IF stop_requested THEN Goto(w, "after_loop") /\ pidx' = pidx
       ELSE NextPoint(w)
    /\ UNCHANGED <<engineVars, deviceVars, now, pts, round, chIter, chPos,
                   ctl, obsVars>>

\* `while self.is_paused and not self._stop_requested: time.sleep(0.5)`
IgnorePause == FALSE
PauseLoop == is_paused /\ ~stop_requested

WaitPause(w) ==
    /\ pc[w] = "wfs_pause"
    /\ ~PauseLoop
    /\ Goto(w, "wfs_poll")
    /\ UNCHANGED <<engineVars, deviceVars, now, localVars, ctl, obsVars>>

\* `elapsed >= STABILITY_TIME_SECONDS`
DwellReached(elapsed) == elapsed >= STABILITY_TIME_SECONDS

\* _update_status at the end of a poll, time.sleep(1), next iteration
PollEnd(w) ==
    /\ IF StatusIndexError
       THEN Raise(w, "IndexError")
       ELSE Goto(w, "wfs_check") /\ UNCHANGED failKind
    /\ UNCHANGED <<round, channel_readings, burst_reads>>

\* _wait_for_stability returns True; _measure_point starts with
\* channel_readings.clear()
StabilityDeclared(w) ==
    /\ Goto(w, "round_check")
    /\ round' = [round EXCEPT ![w] = 0]
    /\ channel_readings' = NoReadings
    /\ burst_reads' = [burst_reads EXCEPT ![w] = NoReadings]
    /\ UNCHANGED failKind

FurnaceReadRaises(w) ==
    /\ Raise(w, "ReadError")
    /\ UNCHANGED <<round, channel_readings, burst_reads>>

\* `if not success: time.sleep(1); continue`
FurnaceReadFailed(w) ==
    /\ Goto(w, "wfs_check")
    /\ UNCHANGED <<round, channel_readings, failKind, burst_reads>>

\* a multimeter read of the equilibrium pass failed or overflowed (a pass
\* happens only with two or more active channels)
EquilibriumReadFailed(chs, reads) ==
    /\ Len(chs) >= 2
    /\ \E i \in 1..Len(chs) : ~reads[i].ok \/ reads[i].temp = Infinity

\* one poll of _wait_for_stability: furnace.read_temperature(), the dwell
\* timer, the equilibrium check once the dwell is reached, _update_status
WaitPoll(w) ==
    /\ pc[w] = "wfs_poll"
    /\ \/ /\ FurnaceReadFailed(w)
          /\ Outcome(w, "no_reading", TRUE)
          /\ UNCHANGED <<stability_start_time, dwell_readings>>
       \/ \E furnace_pv \in PVReadings :
             IF IsStable(furnace_pv, pts[w][pidx[w]])
             THEN /\ stability_start_time' =
                         IF stability_start_time = None THEN now
                         ELSE stability_start_time
                  /\ dwell_readings' =
                         IF stability_start_time = None THEN {furnace_pv}
                         ELSE dwell_readings \cup {furnace_pv}
                  /\ IF DwellReached(now - stability_start_time')
                     THEN \E reads \in [1..Len(active_channels) -> CropicoReads] :
                             IF CheckThermalEquilibrium(active_channels, reads)
                             THEN /\ StabilityDeclared(w)
                                  /\ Outcome(w, "stable",
                                             EquilibriumReadFailed(active_channels, reads))
                             ELSE /\ PollEnd(w)
                                  /\ Outcome(w, "no_equilibrium",
                                             EquilibriumReadFailed(active_channels, reads))
                     ELSE PollEnd(w) /\ Outcome(w, "dwelling", FALSE)
             ELSE /\ stability_start_time' = None
                  /\ dwell_readings' = {}
                  /\ PollEnd(w)
                  /\ Outcome(w, "out_of_tolerance", FALSE)
    /\ UNCHANGED <<flagVars, configVars, current_point_index, session_id,
                   deviceVars, now, pts, pidx, chIter, chPos, ctl, sp_log,
                   parked, errs, completed, point_completed, stopAt, requested, runRequested,
                   runChannels, runPoints>>

(* ---- the measurement burst: _measure_point ---------------------------- *)

\* `for measurement_num in range(MEASUREMENTS_PER_POINT)` and its stop check
RoundCheck(w) ==
    /\ pc[w] = "round_check"
    /\ IF round[w] >= MEASUREMENTS_PER_POINT \/ stop_requested
       THEN Goto(w, "calc")
       ELSE Goto(w, "round_pause")
    /\ UNCHANGED <<engineVars, deviceVars, now, localVars, ctl, obsVars>>

\* the pause loop of a round; then `for ... in enumerate(self.active_channels)`
\* binds the list object that is current now
RoundPause(w) ==
    /\ pc[w] = "round_pause"
    /\ ~PauseLoop
    /\ chIter' = [chIter EXCEPT ![w] = active_channels]
    /\ chPos' = [chPos EXCEPT ![w] = 1]
    /\ Goto(w, "channel")
    /\ UNCHANGED <<engineVars, deviceVars, now, pts, pidx, round, ctl, obsVars>>

\* `else: logger.warning(f"Failed to read channel {channel}")`: the channel
\* gets no reading in this round
ChannelReadFailed(w) ==
    /\ chPos' = [chPos EXCEPT ![w] = chPos[w] + 1]
    /\ UNCHANGED <<pc, failKind, round, channel_readings, burst_reads>>

\* one channel of a round: `if self._stop_requested: break`,
\* configure_channel, settle delay, read_temperature, get_raw_value; a
\* successful finite read is appended and handed to _save_measurement
\* (two furnace reads, active_channels.index(channel), add_measurement,
\* none of it inside a try).  After the last channel: _update_status.
ChannelStep(w) ==
    /\ pc[w] = "channel"
    /\ IF chPos[w] > Len(chIter[w]) \/ stop_requested
       THEN /\ IF StatusIndexError
               THEN Raise(w, "IndexError") /\ UNCHANGED round
               ELSE /\ Goto(w, "round_check")
                    /\ round' = [round EXCEPT ![w] = round[w] + 1]
                    /\ UNCHANGED failKind
            /\ UNCHANGED <<chPos, channel_readings, burst_reads, outcome>>
       ELSE \E read \in CropicoReads :
               IF read.ok /\ read.temp # Infinity
               THEN /\ channel_readings' =
                          [channel_readings EXCEPT ![chIter[w][chPos[w]]] = @ + 1]
                    /\ burst_reads' =
                          [burst_reads EXCEPT ![w][chIter[w][chPos[w]]] = @ + 1]
                    /\ Outcome(w, "reading", FALSE)
                    /\ IF Persist /\ chIter[w][chPos[w]] \notin Range(active_channels)
                       THEN Raise(w, "ValueError") /\ UNCHANGED <<chPos, round>>
                       ELSE \E raises \in add_measurement_raises :
                               IF Persist /\ raises
                               THEN /\ Raise(w, "PersistenceError")
                                    /\ UNCHANGED <<chPos, round>>
                               ELSE /\ chPos' = [chPos EXCEPT ![w] = chPos[w] + 1]
                                    /\ UNCHANGED <<pc, failKind, round>>
               ELSE ChannelReadFailed(w) /\ Outcome(w, "no_reading", TRUE)
    /\ UNCHANGED <<flagVars, configVars, current_point_index,
                   stability_start_time, session_id, deviceVars, now, pts, pidx,
                   chIter, ctl, sp_log, parked, errs, completed, point_completed,
                   historyVars>>

\* _calculate_point_results: one entry per active channel with readings
PointResults == {c \in Range(active_channels) : channel_readings[c] > 0}

\* the entry of channel c: n_measurements = len(temps); avg_reference_temp
\* is the mean of the reference channel's readings when there are any, else
\* target_temp
PointResult(c) ==
    [n_measurements |-> channel_readings[c],
     avg_reference_temp |->
         IF channel_readings[REFERENCE_CHANNEL] > 0
         THEN "mean of the reference readings"
         ELSE "target_temp"]

\* `if point_results:` point_completed.emit and _save_point_results
\* (database.add_calibration_result per channel, uncaught), then the next point
PointDone(w) ==
    /\ pc[w] = "calc"
    /\ \E raises \in add_calibration_result_raises :
          IF PointResults # {} /\ Persist /\ raises
          THEN Raise(w, "PersistenceError") /\ pidx' = pidx
          ELSE NextPoint(w) /\ UNCHANGED failKind
    /\ point_completed' =
          IF PointResults # {}
          THEN [point_completed EXCEPT ![w] = Append(@, pidx[w] - 1)]
          ELSE point_completed
    /\ UNCHANGED <<engineVars, deviceVars, now, pts, round, chIter, chPos, ctl,
                   sp_log, parked, errs, completed, historyVars, burst_reads, outcome>>

(* ---- the end of the run ----------------------------------------------- *)

\* after the loop: `if not self._stop_requested:` park the furnace and
\* _finalize_session (update_session_end_time, uncaught, then
\* calibration_completed.emit); `finally: self.is_running = False`
AfterLoop(w) ==
    /\ pc[w] = "after_loop"
    /\ IF stop_requested
       THEN /\ ThreadExit(w)
            /\ is_running' = FALSE
            /\ UNCHANGED <<parked, completed, failKind>>
       ELSE /\ parked' = [parked EXCEPT ![w] = TRUE]
            /\ \E raises \in update_session_end_time_raises :
                  IF Persist /\ raises
                  THEN /\ Raise(w, "FinalizeError")
                       /\ UNCHANGED <<completed, is_running, localVars,
                                      burst_reads, outcome>>
                  ELSE /\ ThreadExit(w)
                       /\ completed' = [completed EXCEPT ![w] = completed[w] + 1]
                       /\ is_running' = FALSE
                       /\ UNCHANGED failKind
    /\ UNCHANGED <<is_paused, stop_requested, configVars, runVars, session_id,
                   deviceVars, now, ctl, sp_log, errs, point_completed,
                   historyVars>>

SwallowException(w) ==
    /\ pc[w] = "except"
    /\ is_running' = FALSE
    /\ ThreadExit(w)
    /\ UNCHANGED <<is_paused, stop_requested, configVars, runVars, session_id,
                   deviceVars, now, ctl, sp_log, parked, errs, completed, point_completed,
                   failKind, historyVars>>

\* `except Exception as e:` error_occurred.emit(str(e));
\* `finally: self.is_running = False`
ExceptHandler(w) ==
    /\ pc[w] = "except"
    /\ errs' = [errs EXCEPT ![w] = errs[w] + 1]
    /\ is_running' = FALSE
    /\ ThreadExit(w)
    /\ UNCHANGED <<is_paused, stop_requested, configVars, runVars, session_id,
                   deviceVars, now, ctl, sp_log, parked, completed, point_completed,
                   failKind, historyVars>>

Worker(w) ==
    \/ WorkerBegin(w)
    \/ PointBegin(w)
    \/ WaitCheck(w)
    \/ WaitFalse(w)
    \/ WaitPause(w)
    \/ WaitPoll(w)
    \/ RoundCheck(w)
    \/ RoundPause(w)
    \/ ChannelStep(w)
    \/ PointDone(w)
    \/ AfterLoop(w)
    \/ ExceptHandler(w)

(* ---- controlling context: status reads -------------------------------- *)

\* get_current_status: furnace.read_temperature() and read_setpoint() on the
\* caller's thread, then the snapshot
get_current_status_call ==
    /\ ctl = "idle"
    /\ ctl' = "get_current_status"
    /\ UNCHANGED <<engineVars, deviceVars, now, workerVars, obsVars>>

get_current_status_return ==
    /\ ctl = "get_current_status"
    /\ ctl' = "idle"
    /\ UNCHANGED <<engineVars, deviceVars, now, workerVars, obsVars>>

\* read_current_channel: cropico.read_temperature() on the caller's thread
read_current_channel_call ==
    /\ ctl = "idle"
    /\ ctl' = "read_current_channel"
    /\ UNCHANGED <<engineVars, deviceVars, now, workerVars, obsVars>>

read_current_channel_return ==
    /\ ctl = "read_current_channel"
    /\ ctl' = "idle"
    /\ UNCHANGED <<engineVars, deviceVars, now, workerVars, obsVars>>

(* ---- specifications --------------------------------------------------- *)

\* The engine as main.py and the main window leave it before a calibration:
\* constructed, database attached, both devices connected.
InitRun ==
    /\ Constructed
    /\ calibration_points = <<>>
    /\ requested = <<>>
    /\ session_id = 0
    /\ DevicesConnected
    /\ NoFunctionCall

\* The state in which a calibration is started: start_session has created the
\* session and a two-point list has been set, passed in descending order as
\* the remote API may pass it (set_calibration_points([100.0, 50.0])).
InitConfigured ==
    /\ Constructed
    /\ requested = <<1000, 500>>
    /\ calibration_points = Sorted(requested)
    /\ session_id = 1
    /\ DevicesConnected
    /\ NoFunctionCall

\* The caller starts a run only after the previous worker thread has ended.
SequentialStart == (\A w \in Workers : ~Alive(w)) /\ start_calibration

\* The caller sets the point list while no run is in progress.
ConfigureIdle == (\A w \in Workers : ~Alive(w)) /\ set_calibration_points

\* Sequential runs, with or without a session, each on its own point list.
NextRun ==
    \/ start_session
    \/ ConfigureIdle
    \/ SequentialStart
    \/ stop_calibration
    \/ Tick
    \/ \E w \in Workers : Worker(w)

SpecRun == InitRun /\ [][NextRun]_vars

\* The caller starts one run.
FirstStart == (\A w \in Workers : pc[w] = "none") /\ start_calibration

\* The remote API start endpoint called while a run is in progress:
\* configure_channels, set_calibration_points (start_calibration returns).
ConfigureChannelsDuringRun == is_running /\ configure_channels
SetPointsDuringRun == is_running /\ set_calibration_points

\* One run, reconfigured while it is in progress.
NextReconfig ==
    \/ ConfigureChannelsDuringRun
    \/ SetPointsDuringRun
    \/ FirstStart
    \/ stop_calibration
    \/ Tick
    \/ \E w \in Workers : Worker(w)

SpecReconfig == InitConfigured /\ [][NextReconfig]_vars

\* The caller starts a run whenever the engine accepts it, until every thread
\* slot of the model has been in use.
Restart == pc[MaxWorkers] = "none" /\ start_calibration

\* Start and stop at any time, also while an earlier worker is still alive.
NextRestart ==
    \/ Restart
    \/ stop_calibration
    \/ Tick
    \/ \E w \in Workers : Worker(w)

SpecRestart == InitConfigured /\ [][NextRestart]_vars

\* A run with the commands and the status reads of the controlling context.
NextStatus ==
    \/ FirstStart
    \/ stop_calibration
    \/ pause_calibration
    \/ resume_calibration
    \/ get_current_status_call
    \/ get_current_status_return
    \/ read_current_channel_call
    \/ read_current_channel_return
    \/ Tick
    \/ \E w \in Workers : Worker(w)

SpecStatus == InitConfigured /\ [][NextStatus]_vars

\* The caller configures the channels before it starts the run.
ConfigureChannelsIdle == (\A w \in Workers : pc[w] = "none") /\ configure_channels

\* One run on one or two channels.
NextBurst ==
    \/ ConfigureChannelsIdle
    \/ FirstStart
    \/ stop_calibration
    \/ Tick
    \/ \E w \in Workers : Worker(w)

SpecBurst == InitConfigured /\ [][NextBurst]_vars

\* The caller starts a run again right after a stop that it issued while the
\* engine was paused.
RestartAfterPausedStop == (\E w \in Workers : stopAt[w].paused) /\ Restart

\* a worker waits for thermal equilibrium: its last poll reached the dwell
\* time and failed the equilibrium check
NoEquilibrium ==
    \E w \in Workers : pc[w] \in WaitLabels /\ outcome[w].kind = "no_equilibrium"

\* The caller stops the run, and starts another, while the worker waits for
\* thermal equilibrium.
StopWhileNoEquilibrium == NoEquilibrium /\ stop_calibration
RestartWhileNoEquilibrium == NoEquilibrium /\ Restart

\* One run on one or two channels, stopped while the worker waits for
\* thermal equilibrium, and a second start during that wait.
NextEquilibrium ==
    \/ ConfigureChannelsIdle
    \/ FirstStart
    \/ RestartWhileNoEquilibrium
    \/ StopWhileNoEquilibrium
    \/ Tick
    \/ \E w \in Workers : Worker(w)

SpecEquilibrium == InitConfigured /\ [][NextEquilibrium]_vars

\* The caller stops the engine while it is paused.
StopWhilePaused == is_paused /\ stop_calibration

\* One run that is paused at any time and stopped while it is paused, and a
\* second start after that stop; resume_calibration is never called.  A
\* worker thread that can take a step is scheduled eventually; the
\* controlling context is under no obligation to call anything.
NextPause ==
    \/ FirstStart
    \/ RestartAfterPausedStop
    \/ StopWhilePaused
    \/ pause_calibration
    \/ Tick
    \/ \E w \in Workers : Worker(w)

SpecPause ==
    /\ InitConfigured
    /\ [][NextPause]_vars
    /\ \A w \in Workers : WF_vars(Worker(w))

(* ---- properties -------------------------------------------------------- *)

\* statements of the for body of _calibration_worker (the per-point loop)
LoopLabels == {"pt_begin", "wfs_check", "wfs_pause", "wfs_poll", "wfs_false",
               "round_check", "round_pause", "channel", "calc"}

\* statements reached only after _wait_for_stability has returned True
BurstLabels == {"round_check", "round_pause", "channel", "calc"}

InLoop(w) == pc[w] \in LoopLabels

\* exceptions raised by statements of the for body / by _finalize_session
LoopFailures == {"IndexError", "ValueError", "PersistenceError"}
PersistenceFailures == {"PersistenceError", "FinalizeError"}

Count(x, s) == Cardinality({i \in 1..Len(s) : s[i] = x})
SameElements(a, b) == \A x \in PointTemps : Count(x, a) = Count(x, b)

\* the run of worker w has ended by itself: every point of its list was
\* commanded, nobody called stop_calibration, nothing was raised
NaturalCompletion(w) ==
    /\ pc[w] = "done"
    /\ ~stopAt[w].called
    /\ failKind[w] = "none"

\* C1: at most one calibration worker executes the per-point loop of the
\* engine at any time, whatever the interleaving of start_calibration and
\* stop_calibration calls (also a start after a stop, before the previous
\* worker has exited).
C1_OneWorkerInLoop == Cardinality({w \in Workers : InLoop(w)}) <= 1

\* C2: once stop_calibration has been called during the run of a worker, that
\* worker starts no further calibration point (commands no further setpoint),
\* whatever commands follow the stop.
C2_NoPointAfterStop ==
    \A w \in Workers : stopAt[w].called => Len(sp_log[w]) = stopAt[w].started

\* C3: a run that is never stopped and raises no exception has commanded the
\* furnace to the targets of the list passed to set_calibration_points in
\* ascending order, each element of the list exactly once.
C3_AscendingExactlyOnce ==
    \A w \in Workers :
        NaturalCompletion(w) =>
            /\ IsAscending(sp_log[w])
            /\ Len(sp_log[w]) = Len(runRequested[w])
            /\ SameElements(sp_log[w], runRequested[w])

\* a finished run whose list was passed in descending order
C3_Witness ==
    \E w \in Workers :
        /\ NaturalCompletion(w)
        /\ runRequested[w] = <<1000, 500>>
        /\ sp_log[w] = <<500, 1000>>

\* C4: a run has issued the parking command exactly when it reached natural
\* completion; a run for which stop_calibration was called never issues it.
C4_ParkIffNaturalCompletion ==
    \A w \in Workers :
        /\ stopAt[w].called => ~parked[w]
        /\ pc[w] = "done" => (parked[w] <=> NaturalCompletion(w))

\* C5: when stop_calibration is called while the worker is inside the
\* stability wait of point i, the wait does not declare stability and no
\* measurement burst runs for point i, no setpoint of a later point is
\* commanded, and no parking setpoint is issued.
C5_StopDuringStabilityWait ==
    \A w \in Workers :
        (stopAt[w].called /\ stopAt[w].inWait) =>
            /\ pc[w] \notin BurstLabels
            /\ Len(sp_log[w]) = stopAt[w].started
            /\ ~parked[w]

\* C6: whenever _wait_for_stability returns True for a worker, the dwell
\* timer is set, at least STABILITY_TIME_SECONDS have elapsed since the
\* reading that started it, and every successful furnace reading taken since
\* then is within STABILITY_TOLERANCE of that worker's target.
C6_StableOnlyAfterDwell ==
    [][\A w \in Workers :
          (pc[w] = "wfs_poll" /\ pc'[w] = "round_check") =>
              /\ stability_start_time' # None
              /\ DwellReached(now - stability_start_time')
              /\ \A pv \in dwell_readings' : IsStable(pv, pts[w][pidx[w]])]_vars

\* a worker whose per-point loop was left by an exception has commanded no
\* parking setpoint and emitted no calibration_completed event, both device
\* clients are still connected, and it has emitted no error_occurred event
\* before its handler ran and exactly one once it has ended
AfterLoopException(w) ==
    /\ ~parked[w]
    /\ completed[w] = 0
    /\ DevicesConnected
    /\ pc[w] \in {"except", "done"}
    /\ pc[w] = "except" => errs[w] = 0
    /\ pc[w] = "done" => errs[w] = 1

\* C7: if an exception escapes the per-point loop, the worker emits exactly
\* one error_occurred event, the step that handles it leaves is_running false
\* and creates no thread, no parking setpoint is commanded, no
\* calibration_completed event is emitted, both device clients stay
\* connected, and a worker thread only ever comes to life by a
\* start_calibration call.
C7_ExceptionEndsRunOnly ==
    /\ [](\A w \in Workers : failKind[w] \in LoopFailures => AfterLoopException(w))
    /\ [][\A w \in Workers :
            /\ (pc[w] = "except" /\ pc'[w] = "done") =>
                   /\ ~is_running'
                   /\ \A v \in Workers : Alive(v)' => Alive(v)
            /\ (~Alive(w) /\ Alive(w)') => start_calibration]_vars

\* a run ended by add_measurement raising during the second point
C7_Witness ==
    \E w \in Workers :
        /\ failKind[w] = "PersistenceError"
        /\ pc[w] = "done"
        /\ errs[w] = 1
        /\ Len(sp_log[w]) = 2
        /\ ~is_running

\* C8: a persistence call that raises never ends the run: no worker enters
\* its exception handler because of add_measurement, add_calibration_result
\* or update_session_end_time.
C8_PersistenceNeverFatal ==
    \A w \in Workers :
        ~(pc[w] = "except" /\ failKind[w] \in PersistenceFailures)

\* C9: the point list and the channel list a run works on are the ones that
\* were configured when start_calibration was called, and no reconfiguration
\* makes the worker fail.
C9_ConfigurationFixedAtStart ==
    \A w \in Workers :
        /\ (Alive(w) /\ pc[w] # "spawned") => pts[w] = runPoints[w]
        /\ pc[w] = "channel" => chIter[w] = runChannels[w]
        /\ failKind[w] \notin {"IndexError", "ValueError"}

\* the step of worker w that performs furnace.read_temperature (one poll of
\* the stability wait) / the multimeter operations of one channel
FurnaceReadBy(w) == pc[w] = "wfs_poll" /\ pc'[w] # "wfs_poll"
CropicoReadBy(w) ==
    /\ pc[w] = "channel"
    /\ chPos[w] <= Len(chIter[w])
    /\ ~stop_requested
    /\ <<pc'[w], chPos'[w]>> # <<pc[w], chPos[w]>>

\* C10: no device client has two operations in flight: no worker performs a
\* furnace read between the call and the return of get_current_status, and
\* no worker performs a multimeter read between the call and the return of
\* read_current_channel.
C10_SequentialDeviceIO ==
    [][\A w \in Workers :
          /\ ctl = "get_current_status" => ~FurnaceReadBy(w)
          /\ ctl = "read_current_channel" => ~CropicoReadBy(w)]_vars

\* C11: a worker thread exists, and a fortiori commands the furnace
\* (setpoints, the parking setpoint), only for a run that was started with a
\* non-empty list of calibration points and at least two active channels,
\* the reference channel among them.
C11_StartNeedsPointsAndChannels ==
    \A w \in Workers :
        pc[w] # "none" =>
            /\ runPoints[w] # <<>>
            /\ Cardinality(Range(runChannels[w])) >= 2
            /\ REFERENCE_CHANNEL \in Range(runChannels[w])

\* C12: is_paused is true only while a run is in progress: whenever the
\* pause flag is set, the engine is running and a worker thread is alive
\* (neither a pause of the idle engine nor the end of a run leaves the
\* engine paused with no run).
C12_PausedOnlyWhileRunning ==
    is_paused => is_running /\ \E w \in Workers : Alive(w)

\* C13: a stop_calibration that is called while the engine is paused and the
\* worker sits in a pause loop (of the stability wait or of the measurement
\* burst) leads to the end of that worker thread, whether or not
\* resume_calibration is ever called.
C13_StopWhilePausedTerminates ==
    \A w \in Workers : stopAt[w].paused ~> (pc[w] = "done")

\* C14: a worker at the pause check of a poll or of a measurement round
\* starts no poll and no round while is_paused is set and no stop is
\* requested; whenever it leaves the pause check it goes on with the poll or
\* the round it was about to start, with the same point, the same round
\* count and the same setpoints commanded so far.
C14_PauseHoldsAtBoundary ==
    [][\A w \in Workers :
          pc[w] \in PauseLabels =>
              /\ (is_paused /\ ~stop_requested) => pc'[w] = pc[w]
              /\ pc'[w] \in {pc[w],
                             IF pc[w] = "wfs_pause" THEN "wfs_poll" ELSE "channel"}
              /\ pidx'[w] = pidx[w]
              /\ round'[w] = round[w]
              /\ pts'[w] = pts[w]
              /\ sp_log'[w] = sp_log[w]]_vars

\* a worker held by the pause at the boundary before its second round
C14_Witness ==
    \E w \in Workers :
        /\ pc[w] = "round_pause"
        /\ round[w] = 1
        /\ is_paused
        /\ ~stop_requested

\* C15: when a worker computes the results of a point, every entry has
\* n_measurements >= 1 and is the entry of a channel on which that worker
\* had a successful, finite read in the burst of that point (so a channel
\* without such a read has no entry).
C15_ResultEntriesHaveReads ==
    \A w \in Workers :
        pc[w] = "calc" =>
            \A c \in PointResults :
                /\ PointResult(c).n_measurements >= 1
                /\ burst_reads[w][c] >= 1

C17_ReferenceIsBurstMean ==
    \A w \in Workers :
        pc[w] = "calc" =>
            \A c \in PointResults :
                /\ PointResult(c).avg_reference_temp = "mean of the reference readings"
                /\ channel_readings[REFERENCE_CHANNEL] = burst_reads[w][REFERENCE_CHANNEL]

\* C18: when a worker computes the results of a point, the n_measurements of
\* each channel of the run is the number of successful reads the worker made
\* on it in the burst (no entry for none); after a full burst without a stop
\* in which every read succeeded, every channel of the run has an entry with
\* n_measurements = MEASUREMENTS_PER_POINT.
C18_OneResultPerChannel ==
    \A w \in Workers :
        pc[w] = "calc" =>
            /\ \A c \in Range(runChannels[w]) :
                   /\ c \in PointResults =>
                          PointResult(c).n_measurements = burst_reads[w][c]
                   /\ c \notin PointResults => burst_reads[w][c] = 0
            /\ ( /\ ~stopAt[w].called
                  /\ \A c \in Range(runChannels[w]) :
                         burst_reads[w][c] = MEASUREMENTS_PER_POINT )
               => /\ PointResults = Range(runChannels[w])
                  /\ \A c \in PointResults :
                         PointResult(c).n_measurements = MEASUREMENTS_PER_POINT

\* C19: a poll of the stability wait in which the furnace read, or a
\* multimeter read of the equilibrium pass, failed, and a channel read of the
\* burst that failed, emit no error and raise nothing of their own (the only
\* exception of such a step is the IndexError of _update_status); the run
\* goes on: after a failed furnace read with the next poll of the same
\* point and an untouched dwell timer, after a failed channel read with the
\* next channel of the same round and no reading appended.
C19_FailedReadSkipped ==
    [][\A w \in Workers :
          /\ (FurnaceReadBy(w) /\ outcome'[w].failed) =>
                 /\ errs' = errs
                 /\ is_running' = is_running
                 /\ pidx'[w] = pidx[w]
                 /\ pc'[w] \in {"wfs_check", "round_check", "except"}
                 /\ pc'[w] = "except" => failKind'[w] = "IndexError"
                 /\ outcome'[w].kind = "no_reading" =>
                        /\ pc'[w] = "wfs_check"
                        /\ stability_start_time' = stability_start_time
          /\ (CropicoReadBy(w) /\ outcome'[w].failed) =>
                 /\ errs' = errs
                 /\ is_running' = is_running
                 /\ failKind' = failKind
                 /\ pc'[w] = "channel"
                 /\ chPos'[w] = chPos[w] + 1
                 /\ round'[w] = round[w]
                 /\ pidx'[w] = pidx[w]
                 /\ channel_readings' = channel_readings]_vars

\* a worker that goes on with its burst after a channel read that failed in
\* the second round
C19_Witness ==
    \E w \in Workers :
        /\ pc[w] = "channel"
        /\ round[w] = 1
        /\ outcome[w] = [kind |-> "no_reading", failed |-> TRUE]
        /\ channel_readings[REFERENCE_CHANNEL] = 1
        /\ errs[w] = 0

\* C20: a poll that reaches the dwell time but fails the equilibrium check
\* leaves the dwell timer as it is, and the timer stays set and reached
\* until the worker's next poll; a later poll within tolerance checks the
\* equilibrium again and either declares stability or waits on, never with
\* a new dwell period; the wait returns without stability only when a stop
\* is requested.
C20_EquilibriumRecheckedWithoutNewDwell ==
    /\ [](\A w \in Workers :
             (pc[w] \in WaitLabels /\ outcome[w].kind = "no_equilibrium") =>
                 /\ stability_start_time # None
                 /\ DwellReached(now - stability_start_time))
    /\ [][\A w \in Workers :
             /\ (FurnaceReadBy(w) /\ outcome'[w].kind = "no_equilibrium") =>
                    /\ stability_start_time' = stability_start_time
                    /\ pc'[w] \in {"wfs_check", "except"}
             /\ ( /\ FurnaceReadBy(w)
                   /\ outcome[w].kind = "no_equilibrium"
                   /\ outcome'[w].kind \notin {"no_reading", "out_of_tolerance"} )
                => outcome'[w].kind \in {"no_equilibrium", "stable"}
             /\ (pc[w] # "wfs_false" /\ pc'[w] = "wfs_false") => stop_requested]_vars

(* ---- functions applied on their own ---------------------------------- *)

\* The engine at rest: constructed, no session, no points, devices connected.
EngineAtRest ==
    /\ Constructed
    /\ calibration_points = <<>>
    /\ requested = <<>>
    /\ session_id = 0
    /\ DevicesConnected

\* the function named in call returns v; nothing else changes
Return(v) ==
    /\ ret = NoCall
    /\ ret' = [fn |-> call.fn, value |-> v]
    /\ UNCHANGED <<engineVars, connected, ser, call, historyBuffers, now,
                   workerVars, ctl, obsVars>>

(* ---- _check_thermal_equilibrium, one pass ----------------------------- *)

MaxPassChannels == 3
\* what cropico.read_temperature hands to one pass: a failure, or a success
\* with a temperature or with the overflow sentinel
PassReads == {[ok |-> FALSE, temp |-> 0]}
                 \cup {[ok |-> TRUE, temp |-> t] : t \in {500, 503, 504, Infinity}}

\* active_channels as configure_channels may have left it, and one read per
\* element of the list
InitEquilibriumPass ==
    /\ EngineAtRest
    /\ \E chs \in SeqsUpTo(Channels, MaxPassChannels) \ {<<>>} :
         \E reads \in [1..Len(chs) -> PassReads] :
            call = [fn |-> "_check_thermal_equilibrium", chs |-> chs, reads |-> reads]
    /\ ret = NoCall

check_thermal_equilibrium ==
    /\ call.fn = "_check_thermal_equilibrium"
    /\ Return(CheckThermalEquilibrium(call.chs, call.reads))

SpecEquilibriumPass == InitEquilibriumPass /\ [][check_thermal_equilibrium]_vars

\* the reads of a pass that succeeded with a finite temperature
GoodReads == {i \in 1..Len(call.chs) : call.reads[i].ok /\ call.reads[i].temp # Infinity}

\* of these, the read that is the last one of its channel in the pass
KeptReads == {i \in GoodReads : \A j \in GoodReads : call.chs[j] = call.chs[i] => j <= i}

WithinThreshold(I) ==
    \A i \in I : \A j \in I :
        call.reads[i].temp - call.reads[j].temp <= THERMAL_EQUILIBRIUM_THRESHOLD

EquilibriumReturned == ret # NoCall /\ ret.fn = "_check_thermal_equilibrium"

MaxListLen == 3

\* configure_channels(channels, sensor_types) with a list of any length,
\* repeated names included; call keeps the list the caller passed
configure_channels_list ==
    /\ \E channels \in SeqsUpTo(Channels, MaxListLen) :
          /\ active_channels' = WithReference(channels)
          /\ call' = [fn |-> "configure_channels", channels |-> channels]
    /\ UNCHANGED <<flagVars, calibration_points, runVars, session_id, connected,
                   ser, ret, historyBuffers, now, workerVars, ctl, obsVars>>

\* how the engine is configured before a run: session, channels, points
NextConfigure ==
    \/ start_session
    \/ configure_channels_list
    \/ set_calibration_points

SpecConfigure == InitRun /\ [][NextConfigure]_vars

Occurrences(s, x) == Cardinality({i \in 1..Len(s) : s[i] = x})

\* C22: whatever lists configure_channels has been called with, the
\* reference channel is a member of active_channels, and it occurs exactly
\* once when the list of the last call held it at most once.
C22_ReferenceAlwaysActive ==
    /\ REFERENCE_CHANNEL \in Range(active_channels)
    /\ ( /\ call.fn = "configure_channels"
         /\ Occurrences(call.channels, REFERENCE_CHANNEL) <= 1 )
       => Occurrences(active_channels, REFERENCE_CHANNEL) = 1

\* the last call passed a list without the reference channel and the engine
\* put it in front of the list
C22_Witness ==
    /\ call.fn = "configure_channels"
    /\ call.channels = <<"B0", "B0">>
    /\ active_channels = <<REFERENCE_CHANNEL, "B0", "B0">>
    /\ calibration_points # <<>>

(* ---- furnace client: Modbus RTU frames --------------------------------- *)

FURNACE_SLAVE_ID == 1
FURNACE_PV_ADDRESS == 32770
FURNACE_SP_ADDRESS == 32772
MODBUS_READ_HOLDING == 3
MODBUS_WRITE_MULTIPLE == 16
EXCEPTION_BIT == 128
CRC_SEED == 65535
CRC_POLYNOMIAL == 40961

RECURSIVE Pow2(_)
Pow2(n) == IF n = 0 THEN 1 ELSE 2 * Pow2(n - 1)

\* a ^ b on non-negative integers
RECURSIVE Xor(_, _)
Xor(a, b) ==
    IF a = 0 THEN b
    ELSE IF b = 0 THEN a
    ELSE 2 * Xor(a \div 2, b \div 2) + (((a % 2) + (b % 2)) % 2)

\* a | b on non-negative integers
RECURSIVE BitOr(_, _)
BitOr(a, b) ==
    IF a = 0 THEN b
    ELSE IF b = 0 THEN a
    ELSE 2 * BitOr(a \div 2, b \div 2) + (IF (a % 2) + (b % 2) > 0 THEN 1 ELSE 0)

\* one round of the inner loop of _calculate_crc
CrcShift(crc) ==
    IF crc % 2 = 1 THEN Xor(crc \div 2, CRC_POLYNOMIAL) ELSE crc \div 2

\* the inner loop; crc is a 16-bit value throughout
RECURSIVE CrcShifts(_, _)
CrcShifts(crc, n) ==
    IF n = 0 \/ crc > CRC_SEED THEN crc ELSE CrcShifts(CrcShift(crc), n - 1)

\* the outer loop over the bytes of data
RECURSIVE CrcFrom(_, _)
CrcFrom(crc, data) ==
    IF data = <<>> \/ crc > CRC_SEED THEN crc
    ELSE CrcFrom(CrcShifts(Xor(crc, Head(data)), 8), Tail(data))

\* _calculate_crc(data)
CalculateCrc(data) == CrcFrom(CRC_SEED, data)

\* struct.pack('>H', x) and struct.pack('<H', x)
BigEndian16(x) == <<x \div 256, x % 256>>
LittleEndian16(x) == <<x % 256, x \div 256>>

\* struct.unpack('<H', two bytes)
FromLittleEndian16(b) == b[1] + (256 * b[2])

\* _build_read_request(address, count=2)
BuildReadRequest(address) ==
    LET frame == <<FURNACE_SLAVE_ID, MODBUS_READ_HOLDING>>
                     \o BigEndian16(address) \o BigEndian16(2)
    IN frame \o LittleEndian16(CalculateCrc(frame))

\* struct.unpack('>f', four bytes) as a temperature in tenths of a degree,
\* truncated; magnitudes below 2^-7 give 0, magnitudes from 2^14 up and
\* the non-finite encodings give Infinity
UnpackFloat(b) ==
    LET sign == b[1] \div 128
        e == ((b[1] % 128) * 2) + (b[2] \div 128)
        m == ((b[2] % 128) * 65536) + (b[3] * 256) + b[4]
        mag == IF e < 120 THEN 0
               ELSE IF e > 140 THEN Infinity
               ELSE ((8388608 + m) * 10) \div Pow2(150 - e)
    IN IF sign = 1 /\ mag # Infinity THEN 0 - mag ELSE mag

\* a parser that decodes the payload of any reply of full length
ParseUnchecked(response) ==
    IF Len(response) < 9 THEN <<>>
    ELSE <<UnpackFloat(SubSeq(response, 4, 7))>>

\* _parse_float_response(response): <<>> stands for None, <<v>> for a value
ParseFloatResponse(response) ==
    IF Len(response) < 9 THEN <<>>
    ELSE IF response[1] # FURNACE_SLAVE_ID THEN <<>>
    ELSE IF response[2] = BitOr(MODBUS_READ_HOLDING, EXCEPTION_BIT) THEN <<>>
    ELSE IF response[3] # 4 THEN <<>>
    ELSE IF FromLittleEndian16(SubSeq(response, 8, 9))
                # CalculateCrc(SubSeq(response, 1, 7)) THEN <<>>
    ELSE <<UnpackFloat(SubSeq(response, 4, 7))>>

\* read_temperature / read_setpoint on the real transport: one request is
\* written, at most 9 bytes are read; port_error is an exception raised by
\* the serial port, caught by the function
FurnaceRead(connectedNow, port_error, reply) ==
    IF ~connectedNow THEN [ok |-> FALSE, temp |-> 0, requests |-> 0]
    ELSE IF port_error THEN [ok |-> FALSE, temp |-> 0, requests |-> 1]
    ELSE LET value == ParseFloatResponse(reply)
         IN IF value # <<>>
            THEN [ok |-> TRUE, temp |-> value[1], requests |-> 1]
            ELSE [ok |-> FALSE, temp |-> 0, requests |-> 1]

\* a write that succeeds whenever the function code of the response lacks
\* the exception bit
SetpointUnlessException(connectedNow, port_error, response) ==
    /\ connectedNow
    /\ ~port_error
    /\ Len(response) >= 2
    /\ response[2] < EXCEPTION_BIT

\* set_setpoint on the real transport: at most 8 bytes are read
SetSetpoint(connectedNow, port_error, response) ==
    IF ~connectedNow THEN FALSE
    ELSE IF port_error THEN FALSE
    ELSE IF Len(response) >= 8
         THEN IF response[2] = MODBUS_WRITE_MULTIPLE THEN TRUE ELSE FALSE
         ELSE FALSE

\* a 9-byte read response of the given header and payload, with its CRC or
\* with a CRC that does not match
ReadResponse(slave, function, byte_count, payload, crc_ok) ==
    LET body == <<slave, function, byte_count>> \o payload
        crc == CalculateCrc(body)
    IN body \o LittleEndian16(IF crc_ok THEN crc ELSE (crc + 1) % 65536)

\* the responses of the furnace to a read, carrying the big-endian IEEE-754
\* encodings of 50.0, 100.0 and -200.5
WellFormedResponses ==
    {ReadResponse(FURNACE_SLAVE_ID, MODBUS_READ_HOLDING, 4, p, TRUE) :
        p \in {<<66, 72, 0, 0>>, <<66, 200, 0, 0>>, <<195, 72, 128, 0>>}}

\* what the furnace, another slave or a noisy line may answer to a read
ReadReplies ==
    {SubSeq(ReadResponse(slave, function, byte_count, <<66, 72, 0, 0>>, crc_ok), 1, n) :
        slave \in {FURNACE_SLAVE_ID, 2},
        function \in {MODBUS_READ_HOLDING, 131, 4, MODBUS_WRITE_MULTIPLE},
        byte_count \in {4, 2},
        crc_ok \in BOOLEAN,
        n \in 0..9}

\* what may come back after a write request
WriteReplies ==
    {SubSeq(<<FURNACE_SLAVE_ID, function, 128, 4, 0, 2>> \o crc, 1, n) :
        function \in {MODBUS_WRITE_MULTIPLE, 144, MODBUS_READ_HOLDING},
        crc \in {<<0, 0>>, LittleEndian16(CalculateCrc(
                     <<FURNACE_SLAVE_ID, MODBUS_WRITE_MULTIPLE, 128, 4, 0, 2>>))},
        n \in 0..8}

\* the inputs of the four functions; a response handed to the parser is a
\* well-formed one with the byte at one position replaced by any byte
ModbusCalls ==
    {[fn |-> "_parse_float_response", frame |-> f,
      response |-> [f EXCEPT ![pos] = b]] :
        f \in WellFormedResponses, pos \in 1..9, b \in 0..255}
    \cup {[fn |-> "_build_read_request", address |-> a] :
            a \in {0, FURNACE_PV_ADDRESS, FURNACE_SP_ADDRESS}}
    \cup {[fn |-> f, port_error |-> e, reply |-> r] :
            f \in {"read_temperature", "read_setpoint"},
            e \in BOOLEAN, r \in ReadReplies}
    \cup {[fn |-> "set_setpoint", port_error |-> e, reply |-> r] :
            e \in BOOLEAN, r \in WriteReplies}

InitModbus ==
    /\ EngineAtRest
    /\ call \in ModbusCalls
    /\ ret = NoCall

parse_float_response ==
    /\ call.fn = "_parse_float_response"
    /\ Return(ParseFloatResponse(call.response))

build_read_request ==
    /\ call.fn = "_build_read_request"
    /\ Return(BuildReadRequest(call.address))

furnace_read ==
    /\ call.fn \in {"read_temperature", "read_setpoint"}
    /\ Return(FurnaceRead(connected.furnace, call.port_error, call.reply))

set_setpoint ==
    /\ call.fn = "set_setpoint"
    /\ Return(SetSetpoint(connected.furnace, call.port_error, call.reply))

NextModbus ==
    \/ parse_float_response
    \/ build_read_request
    \/ furnace_read
    \/ set_setpoint

SpecModbus == InitModbus /\ [][NextModbus]_vars

ReadReturned == ret # NoCall /\ ret.fn \in {"read_temperature", "read_setpoint"}

\* the reply is a complete read response addressed to this client
ValidReadReply(reply) ==
    /\ Len(reply) = 9
    /\ reply[1] = FURNACE_SLAVE_ID
    /\ reply[2] = MODBUS_READ_HOLDING
    /\ reply[3] = 4
    /\ LittleEndian16(CalculateCrc(SubSeq(reply, 1, 7))) = SubSeq(reply, 8, 9)

\* C23: read_temperature and read_setpoint return ok = true only for a
\* reply of 9 bytes with the expected slave id, function code 0x03, byte
\* count 4 and a matching CRC; for every other reply they return
\* (false, 0.0), and in no case do they send more than one request.
C23_OnlyValidReplyAccepted ==
    ReadReturned =>
        /\ ret.value.requests <= 1
        /\ ret.value.ok => ValidReadReply(call.reply)
        /\ ~ret.value.ok => ret.value.temp = 0

ParseReturned == ret # NoCall /\ ret.fn = "_parse_float_response"
BuildReturned == ret # NoCall /\ ret.fn = "_build_read_request"

\* C24: a well-formed 9-byte read response is accepted, and the same
\* response with any one byte changed to a different value is rejected;
\* the 8-byte read request is slave id, 0x03, start address and count 2,
\* both big-endian, followed by the CRC-16/Modbus of these six bytes low
\* byte first: the CRC of the whole request is zero, and the request for
\* address 0 is 01 03 00 00 00 02 C4 0B.
C24_SingleByteChangeRejected ==
    /\ ParseReturned =>
          /\ call.response # call.frame => ret.value = <<>>
          /\ call.response = call.frame => ret.value # <<>>
    /\ BuildReturned =>
          /\ Len(ret.value) = 8
          /\ SubSeq(ret.value, 1, 6) =
                <<FURNACE_SLAVE_ID, 3, call.address \div 256, call.address % 256, 0, 2>>
          /\ CalculateCrc(SubSeq(ret.value, 1, 6)) = ret.value[7] + (256 * ret.value[8])
          /\ CalculateCrc(ret.value) = 0
          /\ call.address = 0 => ret.value = <<1, 3, 0, 0, 0, 2, 196, 11>>

\* a response whose payload byte was changed has been rejected
C24_Witness ==
    /\ ParseReturned
    /\ call.response[5] # call.frame[5]
    /\ ret.value = <<>>

SetpointReturned == ret # NoCall /\ ret.fn = "set_setpoint"

\* C25 as stated: on a connected real transport set_setpoint returns
\* success exactly when the function code of the response lacks the
\* exception bit 0x80.
C25_SuccessIffNoExceptionBit ==
    (SetpointReturned /\ ~call.port_error /\ Len(call.reply) = 8) =>
        (ret.value <=> call.reply[2] < EXCEPTION_BIT)

\* C25: on a connected real transport set_setpoint returns success exactly
\* when the port raised no error, 8 bytes came back and the function code
\* of the response is 0x10, the code of the write request; an exception
\* response (0x90), a response with another function code and a short or
\* empty response all return failure.
C25_SuccessIffWriteEchoed ==
    SetpointReturned =>
        (ret.value <=> ( /\ ~call.port_error
                         /\ Len(call.reply) = 8
                         /\ call.reply[2] = MODBUS_WRITE_MULTIPLE ))

\* a full-length response carrying the function code of a read was refused
C25_Witness ==
    /\ SetpointReturned
    /\ Len(call.reply) = 8
    /\ call.reply[2] = MODBUS_READ_HOLDING
    /\ ~ret.value

(* ---- device clients: connect and disconnect --------------------------- *)

MaxPort == 2

Clients == {"cropico", "furnace"}

\* how a connect attempt on the real transport ends: the port cannot be
\* opened (serial.SerialException), the port opens but the furnace
\* validation read fails or the *IDN? reply lacks "CROPICO", or the device
\* answers as expected
ConnectOutcomes == {"cannot_open", "not_validated", "ok"}

\* self.ser.close() on the port object s, if it is open
Closed(s) == IF s.state = "open" THEN [s EXCEPT !.state = "closed"] ELSE s

\* CropicoDevice.connect(port_number): self.ser is a new Serial object
\* before open() is tried, so a port that cannot be opened leaves the new
\* object in self.ser, closed
CropicoConnect(c, s, port_number, attempt) ==
    IF attempt = "ok"
    THEN [connected |-> TRUE, ser |-> [state |-> "open", port |-> port_number],
          value |-> TRUE]
    ELSE [connected |-> c, ser |-> [state |-> "closed", port |-> port_number],
          value |-> FALSE]

\* PegasusFurnace.connect(port_number): serial.Serial(port=...) opens in
\* the constructor, so when it raises self.ser is still the object of the
\* earlier attempt, which the handler closes if it is open
FurnaceConnect(c, s, port_number, attempt) ==
    IF attempt = "ok"
    THEN [connected |-> TRUE, ser |-> [state |-> "open", port |-> port_number],
          value |-> TRUE]
    ELSE IF attempt = "not_validated"
    THEN [connected |-> c, ser |-> [state |-> "closed", port |-> port_number],
          value |-> FALSE]
    ELSE [connected |-> c, ser |-> Closed(s), value |-> FALSE]

\* connect_devices(cropico_port, furnace_port): both clients, one after the
\* other; call keeps how each attempt ended, ret what each connect returned
connect_devices ==
    \E cropico_port \in 1..MaxPort, furnace_port \in 1..MaxPort :
      \E oc \in ConnectOutcomes, of \in ConnectOutcomes :
        LET rc == CropicoConnect(connected.cropico, ser.cropico, cropico_port, oc)
            rf == FurnaceConnect(connected.furnace, ser.furnace, furnace_port, of)
        IN /\ connected' = [cropico |-> rc.connected, furnace |-> rf.connected]
           /\ ser' = [cropico |-> rc.ser, furnace |-> rf.ser]
           /\ call' = [fn |-> "connect_devices", cropico |-> oc, furnace |-> of]
           /\ ret' = [fn |-> "connect_devices",
                      value |-> [cropico |-> rc.value, furnace |-> rf.value]]
           /\ UNCHANGED <<engineVars, historyBuffers, now, workerVars, ctl, obsVars>>

\* disconnect_devices(): each client closes its port if it is open
disconnect_devices ==
    /\ connected' = [c \in Clients |-> FALSE]
    /\ ser' = [c \in Clients |-> Closed(ser[c])]
    /\ call' = [fn |-> "disconnect_devices"]
    /\ ret' = [fn |-> "disconnect_devices"]
    /\ UNCHANGED <<engineVars, historyBuffers, now, workerVars, ctl, obsVars>>

\* the clients as constructed: not connected, no port object
InitConnect ==
    /\ Constructed
    /\ calibration_points = <<>>
    /\ requested = <<>>
    /\ session_id = 0
    /\ connected = [c \in Clients |-> FALSE]
    /\ ser = [c \in Clients |-> [state |-> "none", port |-> 0]]
    /\ NoFunctionCall

NextConnect == connect_devices \/ disconnect_devices

SpecConnect == InitConnect /\ [][NextConnect]_vars

\* C26: after a connect attempt that failed, connect has reported failure,
\* the port of the client is not open, and the client is not in the
\* connected state, whatever its state before the attempt.
C26_FailedConnectLeavesDisconnected ==
    \A c \in Clients :
        (ret.fn = "connect_devices" /\ call[c] # "ok") =>
            /\ ~ret.value[c]
            /\ ser[c].state # "open"
            /\ ~connected[c]

(* ---- multimeter client: read_temperature ------------------------------ *)

MaxTokens == 2
TEMP_MIN == -2000
TEMP_MAX == 20000

\* a response line is a sequence of tokens: decimal numbers (in tenths of a
\* degree) and words
Number(n) == [kind |-> "number", number |-> n, word |-> ""]
Word(w) == [kind |-> "word", number |-> 0, word |-> w]

ResponseTokens ==
    {Number(n) : n \in {TEMP_MIN - 1, TEMP_MIN, 235, TEMP_MAX, TEMP_MAX + 1}}
        \cup {Word(w) : w \in {"OVF", "ovf", "Overflow", "ERR"}}

\* str.upper() on the words that occur
Upper(w) ==
    IF w \in {"OVF", "ovf"} THEN "OVF"
    ELSE IF w \in {"OVERFLOW", "Overflow"} THEN "OVERFLOW"
    ELSE w

\* "OVF" in response.upper() or "OVERFLOW" in response.upper()
HasOverflowToken(response) ==
    \E i \in 1..Len(response) :
        /\ response[i].kind = "word"
        /\ Upper(response[i].word) \in {"OVF", "OVERFLOW"}

\* re.search(r'([+-]?\d+\.?\d*)', response): the positions of the numbers
NumberPositions(response) == {i \in 1..Len(response) : response[i].kind = "number"}

\* CropicoSimulator.read_temperature(channel)
SimulatorRead(channel, faulty_channel) ==
    IF channel = faulty_channel THEN Infinity
    ELSE IF channel \in Channels THEN 235
    ELSE 0

\* CropicoDevice.read_temperature(); an empty response stands for the None
\* that _read returns on a timeout
CropicoRead(use_simulator, connectedNow, simulated, response) ==
    IF use_simulator THEN [ok |-> TRUE, temp |-> simulated]
    ELSE IF ~connectedNow THEN [ok |-> FALSE, temp |-> 0]
    ELSE IF response = <<>> THEN [ok |-> FALSE, temp |-> 0]
    ELSE IF NumberPositions(response) # {}
         THEN LET temp == response[SetMin(NumberPositions(response))].number
              IN IF TEMP_MIN <= temp /\ temp <= TEMP_MAX
                 THEN [ok |-> TRUE, temp |-> temp]
                 ELSE [ok |-> FALSE, temp |-> 0]
    ELSE IF HasOverflowToken(response) THEN [ok |-> FALSE, temp |-> Infinity]
    ELSE [ok |-> FALSE, temp |-> 0]

\* a read on the real transport with any response line, or on the
\* simulated transport with any current channel and faulty channel
InitCropicoRead ==
    /\ EngineAtRest
    /\ \/ \E r \in SeqsUpTo(ResponseTokens, MaxTokens) :
             call = [fn |-> "read_temperature", use_simulator |-> FALSE,
                     response |-> r, channel |-> "A0", faulty_channel |-> "none"]
       \/ \E c \in Channels \cup {"none"}, f \in Channels \cup {"none"} :
             call = [fn |-> "read_temperature", use_simulator |-> TRUE,
                     response |-> <<>>, channel |-> c, faulty_channel |-> f]
    /\ ret = NoCall

cropico_read_temperature ==
    /\ call.fn = "read_temperature"
    /\ Return(CropicoRead(call.use_simulator, connected.cropico,
                          SimulatorRead(call.channel, call.faulty_channel),
                          call.response))

SpecCropicoRead == InitCropicoRead /\ [][cropico_read_temperature]_vars

CropicoReadReturned == ret # NoCall /\ ret.fn = "read_temperature"

\* C27: a response that contains the overflow token (OVF or OVERFLOW in
\* any case) is answered with the overflow sentinel +infinity, without
\* success; it is never answered with a numeric temperature nor with the
\* read-failure value 0.0.
C27_OverflowTokenGivesSentinel ==
    (CropicoReadReturned /\ ~call.use_simulator /\ HasOverflowToken(call.response)) =>
        ret.value = [ok |-> FALSE, temp |-> Infinity]

\* C28: on the real and on the simulated transport, a value returned with
\* ok = true is a finite temperature within -200..2000 degrees, and a
\* response without a number never yields ok = true.
C28_SuccessIsFiniteAndInRange ==
    CropicoReadReturned =>
        /\ ret.value.ok =>
              /\ ret.value.temp # Infinity
              /\ TEMP_MIN <= ret.value.temp /\ ret.value.temp <= TEMP_MAX
        /\ (~call.use_simulator /\ NumberPositions(call.response) = {}) => ~ret.value.ok

(* ---- classify_sensor --------------------------------------------------- *)

\* errors and tolerances are in units of 0.0001 degree, temperatures in
\* whole degrees
Max(a, b) == IF a >= b THEN a ELSE b

PT100_CLASS_AA_TOLERANCE(t) == 1000 + (17 * Abs(t))
PT100_CLASS_A_TOLERANCE(t) == 1500 + (20 * Abs(t))
PT100_CLASS_B_TOLERANCE(t) == 3000 + (50 * Abs(t))
PT100_CLASS_C_TOLERANCE(t) == 6000 + (100 * Abs(t))
TC_K_CLASS_1_TOLERANCE(t) == Max(15000, 40 * Abs(t))
TC_K_CLASS_2_TOLERANCE(t) == Max(25000, 75 * Abs(t))
TC_S_CLASS_1_TOLERANCE(t) ==
    IF t > 1100 THEN Max(10000, 30 * (t - 1100)) ELSE 10000

\* a classification that compares the signed error with the tolerances
PT100ClassifySigned(max_error, temperature) ==
    IF max_error <= PT100_CLASS_AA_TOLERANCE(temperature) THEN "AA"
    ELSE IF max_error <= PT100_CLASS_A_TOLERANCE(temperature) THEN "A"
    ELSE IF max_error <= PT100_CLASS_B_TOLERANCE(temperature) THEN "B"
    ELSE IF max_error <= PT100_CLASS_C_TOLERANCE(temperature) THEN "C"
    ELSE "Poza klasa"

\* PT100UncertaintyCalculator.classify_sensor(max_error, temperature)
PT100ClassifySensor(max_error, temperature) ==
    LET abs_error == Abs(max_error)
    IN IF abs_error <= PT100_CLASS_AA_TOLERANCE(temperature) THEN "AA"
       ELSE IF abs_error <= PT100_CLASS_A_TOLERANCE(temperature) THEN "A"
       ELSE IF abs_error <= PT100_CLASS_B_TOLERANCE(temperature) THEN "B"
       ELSE IF abs_error <= PT100_CLASS_C_TOLERANCE(temperature) THEN "C"
       ELSE "Poza klasa"

\* the two tolerances ThermocoupleUncertaintyCalculator.classify_sensor
\* compares with, for its tc_type
ThermocoupleTolerances(tc_type, t) ==
    IF tc_type = "K" THEN <<TC_K_CLASS_1_TOLERANCE(t), TC_K_CLASS_2_TOLERANCE(t)>>
    ELSE IF tc_type = "S"
         THEN <<TC_S_CLASS_1_TOLERANCE(t), (TC_S_CLASS_1_TOLERANCE(t) * 15) \div 10>>
    ELSE <<Max(15000, 40 * Abs(t)), Max(25000, 75 * Abs(t))>>

\* ThermocoupleUncertaintyCalculator.classify_sensor(max_error, temperature)
ThermocoupleClassifySensor(tc_type, max_error, temperature) ==
    LET abs_error == Abs(max_error)
        tolerance == ThermocoupleTolerances(tc_type, temperature)
    IN IF abs_error <= tolerance[1] THEN "Klasa 1"
       ELSE IF abs_error <= tolerance[2] THEN "Klasa 2"
       ELSE "Poza klasa"

ClassifySensor(sensor, max_error, temperature) ==
    IF sensor = "PT100" THEN PT100ClassifySensor(max_error, temperature)
    ELSE ThermocoupleClassifySensor(sensor, max_error, temperature)

\* errors on both sides of every tolerance at the temperatures used
ClassifyErrors ==
    LET magnitudes == {0, 1000, 1001, 1500, 1501, 2700, 2701, 3000, 3001, 6000,
                       6001, 10000, 10001, 15000, 15001, 22500, 22501, 25000,
                       25001, 64000, 120000, 166001}
    IN magnitudes \cup {0 - m : m \in magnitudes}

\* one sensor (PT100, thermocouple K, S or another type) at one
\* temperature, classified for two errors
InitClassify ==
    /\ EngineAtRest
    /\ \E sensor \in {"PT100", "K", "S", "N"}, t \in {-200, 0, 100, 1100, 1600} :
         \E e1 \in ClassifyErrors, e2 \in ClassifyErrors :
            call = [fn |-> "classify_sensor", sensor |-> sensor, temperature |-> t,
                    errors |-> <<e1, e2>>]
    /\ ret = NoCall

classify_sensor ==
    /\ call.fn = "classify_sensor"
    /\ Return([i \in 1..2 |->
                  ClassifySensor(call.sensor, call.errors[i], call.temperature)])

SpecClassify == InitClassify /\ [][classify_sensor]_vars

\* how strict a class is: 0 is the strictest, out of class the last
Strictness(class) ==
    IF class \in {"AA", "Klasa 1"} THEN 0
    ELSE IF class \in {"A", "Klasa 2"} THEN 1
    ELSE IF class = "B" THEN 2
    ELSE IF class = "C" THEN 3
    ELSE 4

\* the widest tolerance of the sensor type at temperature t
WidestTolerance(sensor, t) ==
    IF sensor = "PT100" THEN PT100_CLASS_C_TOLERANCE(t)
    ELSE Max(ThermocoupleTolerances(sensor, t)[1], ThermocoupleTolerances(sensor, t)[2])

ClassifyReturned == ret # NoCall /\ ret.fn = "classify_sensor"

\* C29: for every sensor type and temperature, when |e1| <= |e2| the class
\* of e2 is not stricter than the class of e1, and an error beyond every
\* class tolerance is classified out of class.
C29_ClassificationMonotone ==
    ClassifyReturned =>
        /\ Abs(call.errors[1]) <= Abs(call.errors[2]) =>
              Strictness(ret.value[1]) <= Strictness(ret.value[2])
        /\ \A i \in 1..2 :
              Abs(call.errors[i]) > WidestTolerance(call.sensor, call.temperature) =>
                  ret.value[i] = "Poza klasa"

\* a negative error of larger magnitude fell into a wider class than a
\* positive one
C29_Witness ==
    /\ ClassifyReturned
    /\ call.sensor = "PT100"
    /\ call.errors[1] > 0
    /\ call.errors[2] < 0
    /\ ret.value = <<"AA", "C">>

(* ---- plot history ------------------------------------------------------ *)

\* the capacity of a history buffer, deque(maxlen=1000), scaled down
MaxHistory == 3

\* the readings a poll may hand to _update_furnace_history
HistoryReadings == {495, 1000}

\* deque.append on a deque with maxlen: a full deque drops its leftmost
\* entry
DequeAppend(q, x) ==
    IF Len(q) = MaxHistory THEN Append(Tail(q), x) ELSE Append(q, x)

\* _update_furnace_history(temp), first append: a worker in the polling loop
\* of _wait_for_stability has read the furnace and appends the reading
update_furnace_history_temp(w) ==
    /\ pc[w] = "wfs_poll"
    /\ ~in_update[w]
    /\ \E furnace_pv \in HistoryReadings :
          furnace_history' = DequeAppend(furnace_history, furnace_pv)
    /\ in_update' = [in_update EXCEPT ![w] = TRUE]
    /\ UNCHANGED <<engineVars, connected, ser, call, ret, furnace_time_history,
                   now, workerVars, ctl, obsVars>>

\* _update_furnace_history(temp), second append: the time stamp
update_furnace_history_time(w) ==
    /\ in_update[w]
    /\ furnace_time_history' = DequeAppend(furnace_time_history, now)
    /\ in_update' = [in_update EXCEPT ![w] = FALSE]
    /\ UNCHANGED <<engineVars, connected, ser, call, ret, furnace_history,
                   now, workerVars, ctl, obsVars>>

\* a worker thread goes on only when it is not inside the update
WorkerOutsideUpdate(w) == ~in_update[w] /\ Worker(w)

\* runs and restarts with the clock standing still: the workers stay in
\* their polling loops and keep the furnace trace
NextHistory ==
    \/ FirstStart
    \/ Restart
    \/ stop_calibration
    \/ \E w \in Workers :
          \/ WorkerOutsideUpdate(w)
          \/ update_furnace_history_temp(w)
          \/ update_furnace_history_time(w)

SpecHistory == InitConfigured /\ [][NextHistory]_vars

\* C30: a history buffer never holds more than its capacity and, when
\* full, drops its oldest entry on an append; after an update the
\* temperature buffer and the time buffer of a trace are equally long; an
\* append to a history buffer changes neither channel_readings nor the
\* session the measurements are persisted under.
C30_HistoryBuffersBoundedAndPaired ==
    /\ [](Len(furnace_history) <= MaxHistory /\ Len(furnace_time_history) <= MaxHistory)
    /\ [][ /\ ( furnace_history' # furnace_history /\ Len(furnace_history) = MaxHistory )
                => SubSeq(furnace_history', 1, MaxHistory - 1) = Tail(furnace_history)
           /\ ( furnace_time_history' # furnace_time_history
                /\ Len(furnace_time_history) = MaxHistory )
                => SubSeq(furnace_time_history', 1, MaxHistory - 1)
                       = Tail(furnace_time_history)
           /\ \A w \in Workers :
                 (in_update[w] /\ ~in_update'[w]) =>
                     Len(furnace_history') = Len(furnace_time_history')
           /\ <<furnace_history', furnace_time_history'>>
                  # <<furnace_history, furnace_time_history>>
                => UNCHANGED <<channel_readings, session_id>> ]_vars

(* ---- statistics and uncertainty of a point ---------------------------- *)

\* samples are in tenths of a degree; standard deviations and uncertainties
\* are in units of 0.0001 degree, rounded down
MaxSamples == 3
REFERENCE_UNCERTAINTY == 100
RESOLUTION_UNCERTAINTY == 10
STABILITY_UNCERTAINTY == 200
HOMOGENEITY_UNCERTAINTY == 500
DRIFT_UNCERTAINTY == 100
COLD_JUNCTION_UNCERTAINTY == 5000

\* math.sqrt(x), rounded down: the r in lo..hi with r*r <= x < (r+1)*(r+1)
RECURSIVE SqrtBetween(_, _, _)
SqrtBetween(x, lo, hi) ==
    IF lo >= hi THEN lo
    ELSE LET mid == (lo + hi + 1) \div 2
         IN IF mid * mid <= x THEN SqrtBetween(x, mid, hi)
            ELSE SqrtBetween(x, lo, mid - 1)

Sqrt(x) == SqrtBetween(x, 0, 46340)

RECURSIVE Sum(_)
Sum(s) == IF s = <<>> THEN 0 ELSE Head(s) + Sum(Tail(s))

\* the standard deviation that divides by the number of samples
PopulationStd(values, ddof) ==
    IF Len(values) < 2 THEN 0
    ELSE LET n == Len(values)
             squares == [i \in 1..n |-> ((n * values[i]) - Sum(values))
                                            * ((n * values[i]) - Sum(values))]
         IN Sqrt((1000000 * Sum(squares)) \div (n * n * n))

\* calculate_std(values, ddof=1): np.std takes the mean, the squared
\* deviations from it, their sum over (n - ddof), and the square root;
\* a deviation values[i] - mean is (n * values[i] - Sum(values)) / n
CalculateStd(values, ddof) ==
    IF Len(values) < 2 THEN 0
    ELSE LET n == Len(values)
             squares == [i \in 1..n |-> ((n * values[i]) - Sum(values))
                                            * ((n * values[i]) - Sum(values))]
         IN Sqrt((1000000 * Sum(squares)) \div (n * n * (n - ddof)))

\* calculate_type_a(std_dev, n_measurements): std_dev / math.sqrt(n)
CalculateTypeA(std_dev, n_measurements) ==
    IF n_measurements < 2 THEN 0
    ELSE Sqrt((std_dev * std_dev) \div n_measurements)

\* create_uncertainty_calculator(sensor_type)
IsThermocouple(sensor_type) == sensor_type \in {"TC_K", "TC_S", "TC_N"}

\* calculate_type_b(temperature) of the calculator of the sensor type: each
\* component over sqrt(3), squared and summed, and the square root
CalculateTypeB(sensor_type) ==
    LET sq(u) == u * u
        common == sq(REFERENCE_UNCERTAINTY) + sq(RESOLUTION_UNCERTAINTY)
                     + sq(STABILITY_UNCERTAINTY) + sq(HOMOGENEITY_UNCERTAINTY)
    IN IF IsThermocouple(sensor_type)
       THEN Sqrt((common + sq(DRIFT_UNCERTAINTY * 2)
                     + sq(COLD_JUNCTION_UNCERTAINTY)) \div 3)
       ELSE Sqrt((common + sq(DRIFT_UNCERTAINTY)) \div 3)

\* the two uncertainties added
SumOfUncertainties(u_a, u_b) == u_a + u_b

\* calculate_combined(u_a, u_b)
CalculateCombined(u_a, u_b) == Sqrt((u_a * u_a) + (u_b * u_b))

\* calculate_expanded(u_c, k), with k in tenths
CalculateExpanded(u_c, k) == (k * u_c) \div 10

\* calculate_full_uncertainty(std_dev, n_measurements, temperature,
\* sensor_type, k)
CalculateFullUncertainty(std_dev, n_measurements, sensor_type, k) ==
    LET u_a == CalculateTypeA(std_dev, n_measurements)
        u_b == CalculateTypeB(sensor_type)
        u_c == CalculateCombined(u_a, u_b)
    IN [type_a |-> u_a, type_b |-> u_b, combined |-> u_c,
        expanded |-> CalculateExpanded(u_c, k), coverage_factor |-> k]

\* a class that counts as compliant unless it is empty
CompliantUnlessEmpty(sensor_class) == sensor_class # ""

\* "is_compliant": sensor_class not in ["Poza klasa", ""]
IsCompliant(sensor_class) == sensor_class \notin {"Poza klasa", ""}

\* the class and the compliance mark _calculate_point_results gives to a
\* channel (means in units of 0.0001 degree, target_temp in whole degrees)
PointClass(sensor_type, mean_temp, ref_mean, target_temp) ==
    LET error == mean_temp - ref_mean
        sensor_class ==
            IF IsThermocouple(sensor_type)
            THEN ThermocoupleClassifySensor(
                     IF sensor_type = "TC_K" THEN "K"
                     ELSE IF sensor_type = "TC_S" THEN "S" ELSE "N",
                     Abs(error), target_temp)
            ELSE PT100ClassifySensor(Abs(error), target_temp)
    IN [sensor_class |-> sensor_class, is_compliant |-> IsCompliant(sensor_class)]

\* the inputs: a burst of up to MaxSamples readings; a deviation and a
\* count; a deviation, a count, a sensor type and a coverage factor; two
\* uncertainties; the means of a channel and of the reference at a point
InitPointStatistics ==
    /\ EngineAtRest
    /\ \/ \E values \in SeqsUpTo({500, 503, 504}, MaxSamples) :
             call = [fn |-> "calculate_std", values |-> values]
       \/ \E std_dev \in {0, 1000, 2121, 5000}, n \in -1..(MaxSamples + 1) :
             call = [fn |-> "calculate_type_a", std_dev |-> std_dev, n |-> n]
       \/ \E std_dev \in {0, 1000, 20000}, n \in 1..MaxSamples,
             sensor_type \in {"PT100", "TC_K", "RTD"}, k \in {5, 10, 20, 30} :
             call = [fn |-> "calculate_full_uncertainty", std_dev |-> std_dev,
                     n |-> n, sensor_type |-> sensor_type, k |-> k]
       \/ \E u_a \in {0, 1, 300, 20000}, u_b \in {0, 1, 321, 2906} :
             call = [fn |-> "calculate_combined", u_a |-> u_a, u_b |-> u_b]
       \/ \E sensor_type \in {"PT100", "RTD", "TC_K"}, target_temp \in {0, 100},
             mean_temp \in {0, 1000, 1001, 2700, 2701, 6000, 6001, 16000, 16001,
                            25001},
             ref_mean \in {0, 16001} :
             call = [fn |-> "_calculate_point_results", sensor_type |-> sensor_type,
                     target_temp |-> target_temp, mean_temp |-> mean_temp,
                     ref_mean |-> ref_mean]
    /\ ret = NoCall

calculate_std ==
    /\ call.fn = "calculate_std"
    /\ Return(CalculateStd(call.values, 1))

calculate_type_a ==
    /\ call.fn = "calculate_type_a"
    /\ Return(CalculateTypeA(call.std_dev, call.n))

calculate_full_uncertainty ==
    /\ call.fn = "calculate_full_uncertainty"
    /\ Return(CalculateFullUncertainty(call.std_dev, call.n, call.sensor_type, call.k))

calculate_combined ==
    /\ call.fn = "calculate_combined"
    /\ Return(CalculateCombined(call.u_a, call.u_b))

calculate_point_class ==
    /\ call.fn = "_calculate_point_results"
    /\ Return(PointClass(call.sensor_type, call.mean_temp, call.ref_mean,
                         call.target_temp))

NextPointStatistics ==
    \/ calculate_std
    \/ calculate_type_a
    \/ calculate_full_uncertainty
    \/ calculate_combined
    \/ calculate_point_class

SpecPointStatistics == InitPointStatistics /\ [][NextPointStatistics]_vars

StatisticsReturned(fn) == ret # NoCall /\ ret.fn = fn

\* the sum of the squared differences of every pair of samples, which is
\* the number of samples times the sum of the squared deviations from the mean
PairwiseSquares(values) ==
    Sum([p \in 1..(Len(values) * Len(values)) |->
            LET i == ((p - 1) \div Len(values)) + 1
                j == ((p - 1) % Len(values)) + 1
            IN IF i < j THEN (values[i] - values[j]) * (values[i] - values[j])
               ELSE 0])

\* C31: calculate_std and calculate_type_a return 0 for fewer than two
\* samples (none or one), and always return; for two samples or more
\* calculate_std is the sample standard deviation with the n - 1 divisor
\* and the type A uncertainty is the standard deviation over sqrt(n)
C31_SampleDeviationAndTypeA ==
    /\ StatisticsReturned("calculate_std") =>
          LET n == Len(call.values)
          IN IF n < 2 THEN ret.value = 0
             ELSE /\ ret.value * ret.value * n * (n - 1)
                        <= 1000000 * PairwiseSquares(call.values)
                  /\ 1000000 * PairwiseSquares(call.values)
                        < (ret.value + 1) * (ret.value + 1) * n * (n - 1)
    /\ StatisticsReturned("calculate_type_a") =>
          IF call.n < 2 THEN ret.value = 0
          ELSE /\ ret.value * ret.value * call.n <= call.std_dev * call.std_dev
               /\ call.std_dev * call.std_dev
                     < (ret.value + 1) * (ret.value + 1) * call.n

C31_Witness ==
    /\ StatisticsReturned("calculate_std")
    /\ Len(call.values) = MaxSamples
    /\ ret.value > 0

\* c is the square root of a*a + b*b, rounded down
IsRootOfSquares(c, a, b) ==
    /\ c * c <= (a * a) + (b * b)
    /\ (a * a) + (b * b) < (c + 1) * (c + 1)

\* C32: for uncertainties of type A and B that are not negative and a
\* positive coverage factor k, calculate_full_uncertainty gives
\* combined = sqrt(typeA^2 + typeB^2) and expanded = k * combined, so that
\* combined >= max(typeA, typeB), and expanded >= combined when k >= 1
C32_CombinedAndExpanded ==
    /\ StatisticsReturned("calculate_full_uncertainty") =>
          /\ ret.value.type_a >= 0 /\ ret.value.type_b >= 0
          /\ IsRootOfSquares(ret.value.combined, ret.value.type_a, ret.value.type_b)
          /\ ret.value.combined >= Max(ret.value.type_a, ret.value.type_b)
          /\ 10 * ret.value.expanded <= call.k * ret.value.combined
          /\ call.k * ret.value.combined < 10 * (ret.value.expanded + 1)
          /\ call.k >= 10 => ret.value.expanded >= ret.value.combined
    /\ StatisticsReturned("calculate_combined") =>
          /\ IsRootOfSquares(ret.value, call.u_a, call.u_b)
          /\ ret.value >= Max(call.u_a, call.u_b)

C32_Witness ==
    /\ StatisticsReturned("calculate_full_uncertainty")
    /\ ret.value.type_a > 0
    /\ ret.value.combined > Max(ret.value.type_a, ret.value.type_b)
    /\ ret.value.expanded = 2 * ret.value.combined

\* the tolerance of a class of resistance sensors at a temperature
TightestFirst == <<"AA", "A", "B", "C">>

ResistanceTolerance(class, t) ==
    IF class = "AA" THEN PT100_CLASS_AA_TOLERANCE(t)
    ELSE IF class = "A" THEN PT100_CLASS_A_TOLERANCE(t)
    ELSE IF class = "B" THEN PT100_CLASS_B_TOLERANCE(t)
    ELSE PT100_CLASS_C_TOLERANCE(t)

\* C33: for a resistance sensor the class of a point is the tightest of AA,
\* A, B, C (in that order) whose tolerance at the point temperature is at
\* least |error|, and the out-of-class result when there is none; the
\* point result is compliant exactly when its class is not out-of-class
C33_TightestClassAndCompliance ==
    StatisticsReturned("_calculate_point_results") =>
        LET abs_error == Abs(call.mean_temp - call.ref_mean)
            admits == {i \in 1..4 :
                          abs_error <= ResistanceTolerance(TightestFirst[i],
                                                           call.target_temp)}
        IN /\ ~IsThermocouple(call.sensor_type) =>
                 ret.value.sensor_class =
                     IF admits = {} THEN "Poza klasa"
                     ELSE TightestFirst[SetMin(admits)]
           /\ ret.value.is_compliant <=> ret.value.sensor_class # "Poza klasa"

C33_Witness ==
    /\ StatisticsReturned("_calculate_point_results")
    /\ call.sensor_type = "PT100"
    /\ ret.value.sensor_class = "Poza klasa"
    /\ ~ret.value.is_compliant

(* ---- the events of a point -------------------------------------------- *)

\* steps of worker w: point_completed.emit, measurement_taken.emit,
\* furnace.set_setpoint(target_temp)
EmitsPointCompleted(w) ==
    pc[w] = "calc" /\ point_completed'[w] # point_completed[w]
EmitsMeasurementTaken(w) ==
    pc[w] = "channel" /\ burst_reads'[w] # burst_reads[w]
CommandsPointSetpoint(w) ==
    pc[w] = "pt_begin" /\ sp_log'[w] # sp_log[w]

\* C34: within one run the point_completed event of point i comes after
\* every measurement_taken event of point i and before the setpoint of
\* point i+1 is commanded; the indices of the point_completed events of a
\* run are strictly increasing, each emitted at most once
C34_PointCompletedInOrder ==
    /\ [](\A w \in Workers :
            \A i \in 1..Len(point_completed[w]) :
               \A j \in 1..Len(point_completed[w]) :
                  i < j => point_completed[w][i] < point_completed[w][j])
    /\ [][\A w \in Workers :
            /\ EmitsPointCompleted(w) =>
                  /\ point_completed'[w] = Append(point_completed[w], pidx[w] - 1)
                  /\ Len(sp_log[w]) = pidx[w]
                  /\ sp_log[w][pidx[w]] = pts[w][pidx[w]]
            /\ EmitsMeasurementTaken(w) =>
                  \A i \in Range(point_completed[w]) : i < pidx[w] - 1
            /\ CommandsPointSetpoint(w) =>
                  \A i \in Range(point_completed[w]) : i < pidx[w] - 1]_vars

C34_Witness ==
    \E w \in Workers :
       /\ point_completed[w] = <<0, 1>>
       /\ Len(sp_log[w]) = 2
       /\ completed[w] = 1

(* ---- the end of a run -------------------------------------------------- *)

\* C35: calibration_completed is emitted, and the session end time
\* recorded, at most once per run, only on natural completion and only
\* after the parking setpoint has been commanded; a run ended by
\* stop_calibration or by a worker exception emits no calibration_completed
\* and records no session end time
C35_CompletedOnlyOnNaturalCompletion ==
    \A w \in Workers :
        /\ completed[w] <= 1
        /\ completed[w] = 1 =>
              /\ parked[w]
              /\ NaturalCompletion(w)
              /\ Len(sp_log[w]) = Len(runPoints[w])
        /\ (stopAt[w].called \/ failKind[w] # "none") => completed[w] = 0

\* steps of worker w: a device operation (furnace read of a stability poll,
\* setpoint of a point, parking setpoint, multimeter read of a burst), and
\* an event emitted (measurement_taken, point_completed,
\* calibration_completed, error_occurred)
PerformsDeviceIO(w) ==
    \/ pc[w] = "wfs_poll" /\ pc'[w] # "wfs_poll"
    \/ CommandsPointSetpoint(w)
    \/ ~parked[w] /\ parked'[w]
    \/ pc[w] = "channel" /\ outcome'[w] # outcome[w]
EmitsEvent(w) ==
    \/ EmitsMeasurementTaken(w)
    \/ EmitsPointCompleted(w)
    \/ completed'[w] > completed[w]
    \/ errs'[w] > errs[w]

\* C36: is_running is true for the whole lifetime of a worker; while
\* is_running is false no worker performs device I/O, appends a reading or
\* emits an event, also between a stop request and the worker's exit
C36_RunningWhileWorkerAlive ==
    /\ [](\A w \in Workers : Alive(w) => is_running)
    /\ [][~is_running =>
             \A w \in Workers : ~PerformsDeviceIO(w) /\ ~EmitsEvent(w)]_vars

\* C37: a point result is emitted and persisted only for a point whose
\* burst ran all MEASUREMENTS_PER_POINT rounds over all active channels: a
\* stop request that arrives during a burst produces no point_completed
\* event and no persisted result for the interrupted point
C37_ResultOnlyAfterFullBurst ==
    [][\A w \in Workers :
          EmitsPointCompleted(w) =>
              /\ round[w] = MEASUREMENTS_PER_POINT
              /\ chPos[w] > Len(chIter[w])]_vars

\* C38: while is_paused is set and no stop is requested the worker commands
\* no furnace setpoint: it does not advance to the next point, does not
\* park the furnace and does not finalize the session, wherever in the
\* per-point algorithm the pause request arrived
C38_NoSetpointWhilePaused ==
    [][(is_paused /\ ~stop_requested) =>
          \A w \in Workers :
             /\ ~CommandsPointSetpoint(w)
             /\ ~(~parked[w] /\ parked'[w])
             /\ completed'[w] = completed[w]]_vars

\* C39: whenever the point list is non-empty, current_point_index is below
\* its length, so that get_current_status and _update_status never index
\* past the list -- also after set_calibration_points has installed a
\* shorter list following an earlier run, or during a run
C39_IndexWithinPointList ==
    calibration_points # <<>> => current_point_index < Len(calibration_points)

(* ---- start_calibration during a run ----------------------------------- *)

\* The caller calls start_calibration while a run is in progress, or when
\* no worker thread is left.
StartIdleOrRunning ==
    /\ is_running \/ \A w \in Workers : ~Alive(w)
    /\ pc[MaxWorkers] = "none"
    /\ start_calibration_call

\* Runs that are paused, resumed and stopped, with start_calibration called
\* during them.
NextStart ==
    \/ StartIdleOrRunning
    \/ stop_calibration
    \/ pause_calibration
    \/ resume_calibration
    \/ Tick
    \/ \E w \in Workers : Worker(w)

SpecStart == InitConfigured /\ [][NextStart]_vars

\* C40: start_calibration called while is_running is true is a no-op: it
\* spawns no worker and leaves the pause flag, the stop flag,
\* current_point_index and the readings of the point unchanged
C40_StartWhileRunningIsNoOp ==
    [][(call' # call /\ call'.fn = "start_calibration" /\ is_running) =>
          /\ UNCHANGED <<is_running, is_paused, stop_requested,
                         current_point_index, channel_readings>>
          /\ UNCHANGED <<workerVars, obsVars>>]_vars

C40_Witness ==
    /\ call = [fn |-> "start_calibration", is_running |-> TRUE]
    /\ is_running
    /\ is_paused
    /\ current_point_index = 1
    /\ channel_readings[REFERENCE_CHANNEL] > 0
    /\ \E w \in Workers : pc[w] = "channel"

====
